---- MODULE Spec2Model ----
(***************************************************************************)
(* Zero-cash-date calculator (ZeeCeeDee React component).                  *)
(*                                                                         *)
(* Three revisions of the component are modelled side by side, fed by the  *)
(* same inputs:                                                            *)
(*   - src/unnamed/part_001 : solver with a working (salary) phase and     *)
(*     its projector  (variables result, yearlyData);                      *)
(*   - src/src/app/page.tsx : solver without a working phase and its       *)
(*     projector  (variables pageResult, pageYearlyData);                  *)
(*   - src/unnamed/part_000 : solver only  (variable basicResult).         *)
(* An input change and the effect that recomputes the result are one       *)
(* step: React runs the effect before it handles the next event.           *)
(*                                                                         *)
(* The AnimatedNumber component of part_001 is modelled on its own         *)
(* (SpecAnimated): its value prop changes, time passes, and the browser    *)
(* runs the closures passed to requestAnimationFrame.  An elapsed time is  *)
(* kept up to duration, since progress is Math.min(elapsed / duration, 1). *)
(*                                                                         *)
(* Numbers.  JavaScript numbers are modelled as exact rationals extended   *)
(* with the IEEE-754 special values NaN, +Infinity and -Infinity.  A       *)
(* number is a record [k, n, d]: k = "fin" with the reduced fraction n/d   *)
(* (d > 0), or k \in {"nan", "pinf", "ninf"} with n = 0, d = 1.  Rounding  *)
(* of binary floating point is not modelled: every finite operation is     *)
(* exact, and a logarithm is settled by bounds on the powers of R.  Zero   *)
(* is unsigned; every zero divisor that the modelled code can produce from *)
(* the input domain below is +0 (money is >= 0, inflation is >= -100%), so *)
(* x / 0 is +Infinity, -Infinity or NaN by the sign of x.                  *)
(***************************************************************************)
EXTENDS Integers, Sequences, FiniteSets, TLC

----------------------------------------------------------------------------
(* Extended rational arithmetic                                            *)

RECURSIVE GCD(_, _)
GCD(a, b) == IF b = 0 THEN a ELSE GCD(b, a % b)

AbsInt(a) == IF a < 0 THEN -a ELSE a

SignInt(a) == IF a < 0 THEN -1 ELSE IF a > 0 THEN 1 ELSE 0

NaN == [k |-> "nan", n |-> 0, d |-> 1]

PInf == [k |-> "pinf", n |-> 0, d |-> 1]

NInf == [k |-> "ninf", n |-> 0, d |-> 1]

\* the finite number a / b (b # 0), reduced
Fin(a, b) ==
  LET s == IF b < 0 THEN -1 ELSE 1
      g == GCD(AbsInt(a), AbsInt(b))
  IN  [k |-> "fin", n |-> (s * a) \div g, d |-> (s * b) \div g]

Num(a) == [k |-> "fin", n |-> a, d |-> 1]

IsFin(x) == x.k = "fin"

IsNaN(x) == x.k = "nan"

\* sign of a number: -1, 0, 1 (NaN has no sign; callers test IsNaN first)
Sgn(x) ==
  CASE x.k = "fin" -> SignInt(x.n)
    [] x.k = "pinf" -> 1
    [] x.k = "ninf" -> -1
    [] OTHER -> 0

InfOf(s) == IF s > 0 THEN PInf ELSE IF s < 0 THEN NInf ELSE NaN

Neg(x) ==
  CASE x.k = "fin" -> [k |-> "fin", n |-> -x.n, d |-> x.d]
    [] x.k = "pinf" -> NInf
    [] x.k = "ninf" -> PInf
    [] OTHER -> NaN

\* x + y
Add(x, y) ==
  IF IsNaN(x) \/ IsNaN(y) THEN NaN
  ELSE IF IsFin(x) /\ IsFin(y) THEN
         LET g == GCD(x.d, y.d)
         IN  Fin(x.n * (y.d \div g) + y.n * (x.d \div g), (x.d \div g) * y.d)
  ELSE IF IsFin(x) THEN y
  ELSE IF IsFin(y) THEN x
  ELSE IF x.k = y.k THEN x ELSE NaN

\* x - y
Sub(x, y) == Add(x, Neg(y))

\* x * y
Mul(x, y) ==
  IF IsNaN(x) \/ IsNaN(y) THEN NaN
  ELSE IF IsFin(x) /\ IsFin(y) THEN
         LET g1 == GCD(AbsInt(x.n), y.d)
             g2 == GCD(AbsInt(y.n), x.d)
         IN  Fin((x.n \div g1) * (y.n \div g2), (x.d \div g2) * (y.d \div g1))
  ELSE InfOf(Sgn(x) * Sgn(y))

\* x / y   (a zero divisor is +0)
Div(x, y) ==
  IF IsNaN(x) \/ IsNaN(y) THEN NaN
  ELSE IF IsFin(x) /\ IsFin(y) THEN
         IF y.n = 0 THEN InfOf(Sgn(x))
         ELSE LET g1 == GCD(AbsInt(x.n), AbsInt(y.n))
                  g2 == GCD(x.d, y.d)
              IN  Fin((x.n \div g1) * (y.d \div g2),
                      (x.d \div g2) * (y.n \div g1))
  ELSE IF IsFin(x) THEN Num(0)
  ELSE IF IsFin(y) THEN InfOf(Sgn(x) * (IF y.n < 0 THEN -1 ELSE 1))
  ELSE NaN

\* x < y   (false when either side is NaN)
Lt(x, y) ==
  IF IsNaN(x) \/ IsNaN(y) THEN FALSE
  ELSE IF IsFin(x) /\ IsFin(y) THEN
         LET g == GCD(x.d, y.d)
         IN  x.n * (y.d \div g) < y.n * (x.d \div g)
  ELSE IF x.k = y.k THEN FALSE
  ELSE x.k = "ninf" \/ y.k = "pinf"

\* x <= y  (false when either side is NaN)
Le(x, y) ==
  IF IsNaN(x) \/ IsNaN(y) THEN FALSE ELSE Lt(x, y) \/ x = y

\* Math.abs
Abs(x) == IF IsNaN(x) THEN NaN ELSE IF Sgn(x) < 0 THEN Neg(x) ELSE x

\* Math.floor
Floor(x) == IF IsFin(x) THEN Num(x.n \div x.d) ELSE x

\* the value of a logarithm that the power bounds below cannot settle
Unknown == [k |-> "unknown", n |-> 0, d |-> 1]

\* powers of R are kept as bounds lo / LogScale <= R^m <= hi / LogScale on
\* whole numbers lo and hi; the bounds are equal while R^m * LogScale is whole
LogScale == 648000

\* lo * R, rounded down
PowDown(lo, R) == (lo * R.n) \div R.d

\* hi * R, rounded up
PowUp(hi, R) == (hi * R.n + R.d - 1) \div R.d

\* floor(log_R q) for finite R > 1 and finite q >= 1
RECURSIVE FloorLogUp(_, _, _, _, _)
FloorLogUp(R, q, lo, hi, m) ==
  IF PowUp(hi, R) * q.d <= q.n * LogScale
  THEN FloorLogUp(R, q, PowDown(lo, R), PowUp(hi, R), m + 1)
  ELSE IF PowDown(lo, R) * q.d > q.n * LogScale THEN Num(m)
  ELSE Unknown

\* ceil(log_R q) for finite R > 1 and finite q >= 1
RECURSIVE CeilLogUp(_, _, _, _, _)
CeilLogUp(R, q, lo, hi, m) ==
  IF hi * q.d < q.n * LogScale
  THEN CeilLogUp(R, q, PowDown(lo, R), PowUp(hi, R), m + 1)
  ELSE IF lo * q.d >= q.n * LogScale THEN Num(m)
  ELSE Unknown

\* floor(log(q) / log(R)) for finite R > 0, R # 1 and finite q > 0
FloorLogRatio(q, R) ==
  LET one == Num(1)
      RR  == IF Lt(R, one) THEN Div(one, R) ELSE R
      qq  == IF Lt(R, one) THEN Div(one, q) ELSE q
  IN  IF Le(one, qq) THEN FloorLogUp(RR, qq, LogScale, LogScale, 0)
      ELSE LET c == CeilLogUp(RR, Div(one, qq), LogScale, LogScale, 0)
           IN  IF c = Unknown THEN Unknown ELSE Neg(c)

\* the class of Math.log(x): -1, 0, 1 stand for a finite logarithm of that sign
LogClass(x) ==
  IF IsNaN(x) \/ Sgn(x) < 0 THEN NaN
  ELSE IF x.k = "pinf" THEN PInf
  ELSE IF x.n = 0 THEN NInf
  ELSE IF Lt(x, Num(1)) THEN Num(-1)
  ELSE IF x = Num(1) THEN Num(0) ELSE Num(1)

\* Math.floor(1 + Math.log(q) / Math.log(R))
FloorOnePlusLog(q, R) ==
  LET lq == LogClass(q)
      lR == LogClass(R)
  IN  IF IsFin(lq) /\ IsFin(lR) /\ lR.n # 0
      THEN Add(Num(1), FloorLogRatio(q, R))
      ELSE Floor(Add(Num(1), Div(lq, lR)))

----------------------------------------------------------------------------
(* Bounds of the input domain                                              *)

\* largest startingAmount and burn, in whole currency units
MaxMoney == 3

\* largest postTaxSalary
MaxSalary == 1

\* largest yearsUntilRetirement
MaxRetirementYears == 2

\* projection horizon used for an infinite result (the code uses 50)
InfiniteYears == 6

\* iterations after which a projection loop with an infinite horizon is
\* reported as not returning
MaxLoop == 12

\* largest horizon of a direct call of a projector
MaxHorizon == 8

\* inflation and growth inputs, in percent
Rates == {-100, -50, 0, 50, 100}

\* growth inputs: a loss of more than the whole capital can be typed in
GrowthRates == Rates \cup {-200}

Money == 0..MaxMoney

Salaries == 0..MaxSalary

RetirementYears == 0..MaxRetirementYears

----------------------------------------------------------------------------
(* Values of the result record                                             *)

\* zcd: 'infinite'
Infinite == [k |-> "infinite", n |-> 0, d |-> 1]

\* an optional field that was not set (criticalCapital?: number)
Absent == [k |-> "absent", n |-> 0, d |-> 1]

\* useState<CalculationResult | null>(null)
Null == [k |-> "null", n |-> 0, d |-> 1]

YearlyData(year, burnRate, portfolioValue) ==
  [year |-> year, burnRate |-> burnRate, portfolioValue |-> portfolioValue,
   netWorth |-> portfolioValue]

CalculationResult(zcd, isInfinite, realGrowthRate, criticalCapital, spendingRate, sustainableRate) ==
  [zcd |-> zcd, isInfinite |-> isInfinite, realGrowthRate |-> realGrowthRate,
   criticalCapital |-> criticalCapital, spendingRate |-> spendingRate,
   sustainableRate |-> sustainableRate]

\* const R = (1 + G) / (1 + Inf)
RealGrowth(G, Inf) == Div(Add(Num(1), G), Add(Num(1), Inf))

\* Math.abs(R - 1) < 0.0001
NearOne(R) == Lt(Abs(Sub(R, Num(1))), Fin(1, 10000))

----------------------------------------------------------------------------
(* src/unnamed/part_001: projector and solver with a working phase         *)

\* mutant: the burn of the last record is set to 0 as well
depletedRecord_BurnCleared(year, currentBurn) ==
  YearlyData(year, Num(0), Num(0))

\* the record pushed when the portfolio has run out
depletedRecord(year, currentBurn) == YearlyData(year, currentBurn, Num(0))

\* mutant: a record keeps the burn that was withdrawn in its own year
RECURSIVE generateLoop_BurnOfYear(_, _, _, _, _, _, _, _, _)
generateLoop_BurnOfYear(G, Inf, salary, retirementYears, maxYears, year, currentPortfolio, currentBurn, data) ==
  IF ~Le(Num(year), maxYears) THEN [data |-> data, returns |-> TRUE]
  ELSE IF maxYears = PInf /\ year > MaxLoop
       THEN [data |-> data, returns |-> FALSE]
  ELSE
    LET withSalary == IF year <= retirementYears
                      THEN Add(currentPortfolio, salary)
                      ELSE currentPortfolio
        afterBurn  == Sub(withSalary, currentBurn)
    IN  IF Le(afterBurn, Num(0))
        THEN [data |-> Append(data, depletedRecord(year, currentBurn)),
              returns |-> TRUE]
        ELSE
          LET grown    == Mul(afterBurn, Add(Num(1), G))
              nextBurn == Mul(currentBurn, Add(Num(1), Inf))
          IN  generateLoop_BurnOfYear(G, Inf, salary, retirementYears,
                           maxYears, year + 1, grown, nextBurn,
                           Append(data, YearlyData(year, currentBurn, grown)))

\* the for loop of generateYearlyData; returns = FALSE when the loop runs
\* without end (maxYears = Infinity and the portfolio never reaches 0)
RECURSIVE generateLoop(_, _, _, _, _, _, _, _, _)
generateLoop(G, Inf, salary, retirementYears, maxYears, year, currentPortfolio, currentBurn, data) ==
  IF ~Le(Num(year), maxYears) THEN [data |-> data, returns |-> TRUE]
  ELSE IF maxYears = PInf /\ year > MaxLoop
       THEN [data |-> data, returns |-> FALSE]
  ELSE
    LET withSalary == IF year <= retirementYears
                      THEN Add(currentPortfolio, salary)
                      ELSE currentPortfolio
        afterBurn  == Sub(withSalary, currentBurn)
    IN  IF Le(afterBurn, Num(0))
        THEN [data |-> Append(data, depletedRecord(year, currentBurn)),
              returns |-> TRUE]
        ELSE
          LET grown    == Mul(afterBurn, Add(Num(1), G))
              nextBurn == Mul(currentBurn, Add(Num(1), Inf))
          IN  generateLoop(G, Inf, salary, retirementYears, maxYears,
                           year + 1, grown, nextBurn,
                           Append(data, YearlyData(year, nextBurn, grown)))

\* mutant: growth and inflation change places
generateYearlyData_SwappedRates(A, B, G, Inf, salary, retirementYears, maxYears) ==
  generateLoop(Inf, G, salary, retirementYears, maxYears,
               1, A, B, <<YearlyData(0, B, A)>>)

\* mutant: the salary is not passed on to the loop
generateYearlyData_NoSalary(A, B, G, Inf, salary, retirementYears, maxYears) ==
  generateLoop(G, Inf, Num(0), retirementYears, maxYears,
               1, A, B, <<YearlyData(0, B, A)>>)

\* mutant: the loop runs while year < maxYears
generateYearlyData_HorizonOffByOne(A, B, G, Inf, salary, retirementYears, maxYears) ==
  generateLoop(G, Inf, salary, retirementYears, Sub(maxYears, Num(1)),
               1, A, B, <<YearlyData(0, B, A)>>)

generateYearlyData(A, B, G, Inf, salary, retirementYears, maxYears) ==
  generateLoop(G, Inf, salary, retirementYears, maxYears,
               1, A, B, <<YearlyData(0, B, A)>>)

\* mutant: the burn is not raised by inflation during the working years
RECURSIVE workingYears_FlatBurn(_, _, _, _, _, _, _)
workingYears_FlatBurn(G, Inf, salary, retirementYears, year, portfolioAtRetirement, currentBurn) ==
  IF year > retirementYears
  THEN [depleted |-> FALSE, year |-> year,
        portfolioAtRetirement |-> portfolioAtRetirement,
        currentBurn |-> currentBurn]
  ELSE
    LET afterBurn == Sub(Add(portfolioAtRetirement, salary), currentBurn)
    IN  IF Le(afterBurn, Num(0))
        THEN [depleted |-> TRUE, year |-> year,
              portfolioAtRetirement |-> afterBurn,
              currentBurn |-> currentBurn]
        ELSE workingYears_FlatBurn(G, Inf, salary, retirementYears, year + 1,
                                   Mul(afterBurn, Add(Num(1), G)),
                                   currentBurn)

\* the working-years loop of calculateZCD: the year the portfolio runs out
\* (depleted = TRUE) or the portfolio and burn at retirement
RECURSIVE workingYears(_, _, _, _, _, _, _)
workingYears(G, Inf, salary, retirementYears, year, portfolioAtRetirement, currentBurn) ==
  IF year > retirementYears
  THEN [depleted |-> FALSE, year |-> year,
        portfolioAtRetirement |-> portfolioAtRetirement,
        currentBurn |-> currentBurn]
  ELSE
    LET afterBurn == Sub(Add(portfolioAtRetirement, salary), currentBurn)
    IN  IF Le(afterBurn, Num(0))
        THEN [depleted |-> TRUE, year |-> year,
              portfolioAtRetirement |-> afterBurn,
              currentBurn |-> currentBurn]
        ELSE workingYears(G, Inf, salary, retirementYears, year + 1,
                          Mul(afterBurn, Add(Num(1), G)),
                          Mul(currentBurn, Add(Num(1), Inf)))

\* mutant: the spending rate is compared with the real growth rate R - 1
neverRunsOut_RealGrowth(retirementBurn, portfolioAtRetirement, R) ==
  Lt(Div(retirementBurn, portfolioAtRetirement), Sub(R, Num(1)))

\* mutant: the portfolio is divided by the burn
neverRunsOut_Swapped(retirementBurn, portfolioAtRetirement, R) ==
  Lt(Div(portfolioAtRetirement, retirementBurn), Div(Sub(R, Num(1)), R))

\* Step 3 of calculateZCD: money never runs out in retirement
neverRunsOut(retirementBurn, portfolioAtRetirement, R) ==
  Lt(Div(retirementBurn, portfolioAtRetirement), Div(Sub(R, Num(1)), R))

\* Step 4 of calculateZCD: N for the retirement phase
finiteYears(A, B, R) ==
  IF NearOne(R) THEN Floor(Div(A, B))
  ELSE LET K == Div(Mul(B, R), Sub(R, Num(1)))
       IN  IF Le(Sub(K, A), Num(0)) THEN Num(0)
           ELSE FloorOnePlusLog(Div(Sub(K, B), Sub(K, A)), R)

\* mutant: the fixed point of growth before the withdrawal, a = R a - B
criticalCapitalK_GrowthFirst(retirementBurn, R) ==
  Div(retirementBurn, Sub(R, Num(1)))

\* const K = (retirementBurn * R) / (R - 1), stored as criticalCapital
criticalCapitalK(retirementBurn, R) ==
  Div(Mul(retirementBurn, R), Sub(R, Num(1)))

\* mutant: the spending rate is taken from the burn and the portfolio at
\* retirement
calculateZCD_RatesAtRetirement(startingAmountV, burnV, inflationV, growthV, postTaxSalaryV, yearsUntilRetirementV) ==
  LET A   == Num(startingAmountV)
      B   == Num(burnV)
      Inf == Div(Num(inflationV), Num(100))
      G   == Div(Num(growthV), Num(100))
      salary == Num(postTaxSalaryV)
      retirementYears == yearsUntilRetirementV
      R   == RealGrowth(G, Inf)
      w   == workingYears(G, Inf, salary, retirementYears, 1, A, B)
      realGrowthRate  == Mul(Sub(R, Num(1)), Num(100))
      spendingRate    == Mul(Div(w.currentBurn, w.portfolioAtRetirement),
                             Num(100))
      sustainableRate == Mul(Div(Sub(R, Num(1)), R), Num(100))
  IN  IF w.depleted
      THEN [result |-> CalculationResult(Num(w.year), FALSE, realGrowthRate,
                                         Absent, spendingRate, sustainableRate),
            gen |-> generateYearlyData(A, B, G, Inf, salary, retirementYears,
                                       Num(w.year + 2))]
      ELSE
        LET portfolioAtRetirement == w.portfolioAtRetirement
            retirementBurn == w.currentBurn
        IN  IF neverRunsOut(retirementBurn, portfolioAtRetirement, R)
            THEN [result |-> CalculationResult(Infinite, TRUE, realGrowthRate,
                                               Absent, spendingRate,
                                               sustainableRate),
                  gen |-> generateYearlyData(A, B, G, Inf, salary,
                                             retirementYears,
                                             Num(InfiniteYears))]
            ELSE
              LET N == finiteYears(portfolioAtRetirement, retirementBurn, R)
                  totalZCD == Add(Num(retirementYears), N)
                  K == criticalCapitalK(retirementBurn, R)
              IN  [result |-> CalculationResult(totalZCD, FALSE,
                                                realGrowthRate, K,
                                                spendingRate, sustainableRate),
                   gen |-> generateYearlyData(A, B, G, Inf, salary,
                                              retirementYears,
                                              Add(totalZCD, Num(5)))]

\* calculateZCD: the result it stores, the yearly data it stores, and
\* whether the call returns
calculateZCD(startingAmountV, burnV, inflationV, growthV, postTaxSalaryV, yearsUntilRetirementV) ==
  LET A   == Num(startingAmountV)
      B   == Num(burnV)
      Inf == Div(Num(inflationV), Num(100))
      G   == Div(Num(growthV), Num(100))
      salary == Num(postTaxSalaryV)
      retirementYears == yearsUntilRetirementV
      R   == RealGrowth(G, Inf)
      w   == workingYears(G, Inf, salary, retirementYears, 1, A, B)
      realGrowthRate  == Mul(Sub(R, Num(1)), Num(100))
      spendingRate    == Mul(Div(B, A), Num(100))
      sustainableRate == Mul(Div(Sub(R, Num(1)), R), Num(100))
  IN  IF w.depleted
      THEN [result |-> CalculationResult(Num(w.year), FALSE, realGrowthRate,
                                         Absent, spendingRate, sustainableRate),
            gen |-> generateYearlyData(A, B, G, Inf, salary, retirementYears,
                                       Num(w.year + 2))]
      ELSE
        LET portfolioAtRetirement == w.portfolioAtRetirement
            retirementBurn == w.currentBurn
        IN  IF neverRunsOut(retirementBurn, portfolioAtRetirement, R)
            THEN [result |-> CalculationResult(Infinite, TRUE, realGrowthRate,
                                               Absent, spendingRate,
                                               sustainableRate),
                  gen |-> generateYearlyData(A, B, G, Inf, salary,
                                             retirementYears,
                                             Num(InfiniteYears))]
            ELSE
              LET N == finiteYears(portfolioAtRetirement, retirementBurn, R)
                  totalZCD == Add(Num(retirementYears), N)
                  K == criticalCapitalK(retirementBurn, R)
              IN  [result |-> CalculationResult(totalZCD, FALSE,
                                                realGrowthRate, K,
                                                spendingRate, sustainableRate),
                   gen |-> generateYearlyData(A, B, G, Inf, salary,
                                              retirementYears,
                                              Add(totalZCD, Num(5)))]

----------------------------------------------------------------------------
(* src/src/app/page.tsx: projector and solver without a working phase      *)

\* the record pushed when the portfolio has run out
pageDepletedRecord(year, currentBurn) == YearlyData(year, currentBurn, Num(0))

\* the for loop of generateYearlyData
RECURSIVE pageGenerateLoop(_, _, _, _, _, _, _)
pageGenerateLoop(G, Inf, maxYears, year, currentPortfolio, currentBurn, data) ==
  IF ~Le(Num(year), maxYears) THEN [data |-> data, returns |-> TRUE]
  ELSE IF maxYears = PInf /\ year > MaxLoop
       THEN [data |-> data, returns |-> FALSE]
  ELSE
    LET afterBurn == Sub(currentPortfolio, currentBurn)
    IN  IF Le(afterBurn, Num(0))
        THEN [data |-> Append(data, pageDepletedRecord(year, currentBurn)),
              returns |-> TRUE]
        ELSE
          LET grown    == Mul(afterBurn, Add(Num(1), G))
              nextBurn == Mul(currentBurn, Add(Num(1), Inf))
          IN  pageGenerateLoop(G, Inf, maxYears, year + 1, grown, nextBurn,
                               Append(data, YearlyData(year, nextBurn, grown)))

pageGenerateYearlyData(A, B, G, Inf, maxYears) ==
  pageGenerateLoop(G, Inf, maxYears, 1, A, B, <<YearlyData(0, B, A)>>)

\* mutant: <= in place of <
pageNeverRunsOut_OrEqual(A, B, R) == Le(Div(B, A), Div(Sub(R, Num(1)), R))

\* Step 2 of calculateZCD: money never runs out
pageNeverRunsOut(A, B, R) == Lt(Div(B, A), Div(Sub(R, Num(1)), R))

\* mutant: the 1 is not added to the logarithm
pageFiniteYears_NoPlusOne(A, B, R) ==
  IF NearOne(R) THEN Floor(Div(A, B))
  ELSE LET K == Div(Mul(B, R), Sub(R, Num(1)))
       IN  IF Le(Sub(K, A), Num(0)) THEN Num(0)
           ELSE Sub(FloorOnePlusLog(Div(Sub(K, B), Sub(K, A)), R), Num(1))

\* mutant: no special case for R close to 1
pageFiniteYears_NoLinearCase(A, B, R) ==
  LET K == Div(Mul(B, R), Sub(R, Num(1)))
  IN  IF Le(Sub(K, A), Num(0)) THEN Num(0)
      ELSE FloorOnePlusLog(Div(Sub(K, B), Sub(K, A)), R)

\* Step 3 of calculateZCD: N
pageFiniteYears(A, B, R) ==
  IF NearOne(R) THEN Floor(Div(A, B))
  ELSE LET K == Div(Mul(B, R), Sub(R, Num(1)))
       IN  IF Le(Sub(K, A), Num(0)) THEN Num(0)
           ELSE FloorOnePlusLog(Div(Sub(K, B), Sub(K, A)), R)

pageCalculateZCD(startingAmountV, burnV, inflationV, growthV) ==
  LET A   == Num(startingAmountV)
      B   == Num(burnV)
      Inf == Div(Num(inflationV), Num(100))
      G   == Div(Num(growthV), Num(100))
      R   == RealGrowth(G, Inf)
      spendingRate    == Mul(Div(B, A), Num(100))
      sustainableRate == Mul(Div(Sub(R, Num(1)), R), Num(100))
  IN  IF pageNeverRunsOut(A, B, R)
      THEN [result |-> CalculationResult(Infinite, TRUE,
                                         Mul(Sub(R, Num(1)), Num(100)),
                                         Absent, spendingRate, sustainableRate),
            gen |-> pageGenerateYearlyData(A, B, G, Inf, Num(InfiniteYears))]
      ELSE
        LET N == pageFiniteYears(A, B, R)
            K == Div(Mul(B, R), Sub(R, Num(1)))
        IN  [result |-> CalculationResult(N, FALSE,
                                          Mul(Sub(R, Num(1)), Num(100)),
                                          K, spendingRate, sustainableRate),
             gen |-> pageGenerateYearlyData(A, B, G, Inf, Add(N, Num(5)))]

----------------------------------------------------------------------------
(* src/unnamed/part_000: solver only                                       *)

\* mutant: <= in place of <
basicNeverRunsOut_OrEqual(A, B, R) == Le(Div(B, A), Div(Sub(R, Num(1)), R))

\* Step 2 of calculateZCD: money never runs out
basicNeverRunsOut(A, B, R) == Lt(Div(B, A), Div(Sub(R, Num(1)), R))

\* mutant: N is not rounded down but up
basicFiniteYears_RoundUp(A, B, R) ==
  IF NearOne(R) THEN Floor(Div(A, B))
  ELSE LET K == Div(Mul(B, R), Sub(R, Num(1)))
       IN  IF Le(Sub(K, A), Num(0)) THEN Num(0)
           ELSE Add(FloorOnePlusLog(Div(Sub(K, B), Sub(K, A)), R), Num(1))

\* Step 3 of calculateZCD: N
basicFiniteYears(A, B, R) ==
  IF NearOne(R) THEN Floor(Div(A, B))
  ELSE LET K == Div(Mul(B, R), Sub(R, Num(1)))
       IN  IF Le(Sub(K, A), Num(0)) THEN Num(0)
           ELSE FloorOnePlusLog(Div(Sub(K, B), Sub(K, A)), R)

\* calculateZCD: the result it stores
basicCalculateZCD(startingAmountV, burnV, inflationV, growthV) ==
  LET A   == Num(startingAmountV)
      B   == Num(burnV)
      Inf == Div(Num(inflationV), Num(100))
      G   == Div(Num(growthV), Num(100))
      R   == RealGrowth(G, Inf)
      spendingRate    == Mul(Div(B, A), Num(100))
      sustainableRate == Mul(Div(Sub(R, Num(1)), R), Num(100))
  IN  IF basicNeverRunsOut(A, B, R)
      THEN CalculationResult(Infinite, TRUE, Mul(Sub(R, Num(1)), Num(100)),
                             Absent, spendingRate, sustainableRate)
      ELSE CalculationResult(basicFiniteYears(A, B, R), FALSE,
                             Mul(Sub(R, Num(1)), Num(100)),
                             Div(Mul(B, R), Sub(R, Num(1))),
                             spendingRate, sustainableRate)

----------------------------------------------------------------------------
(* The component state and its event handlers                              *)

VARIABLES
  startingAmount,        \* useState: starting capital
  burn,                  \* useState: first-year withdrawal
  inflation,             \* useState: inflation, percent
  growth,                \* useState: growth, percent
  postTaxSalary,         \* useState (part_001): yearly contribution
  yearsUntilRetirement,  \* useState (part_001): contribution years
  result,                \* part_001: result
  yearlyData,            \* part_001: yearlyData
  hung,                  \* part_001: calculateZCD did not return
  pageResult,            \* page.tsx: result
  pageYearlyData,        \* page.tsx: yearlyData
  pageHung,              \* page.tsx: calculateZCD did not return
  basicResult,           \* part_000: result
  horizon,               \* maxYears of a direct call of the projectors
  projection,            \* part_001: what generateYearlyData returned
  pageProjection         \* page.tsx: what generateYearlyData returned

\* part_001: one AnimatedNumber
VARIABLES
  value,                 \* the value prop: a number or 'infinite'
  displayValue,          \* useState<number>(0)
  isAnimating,           \* useState(false)
  prevValueRef,          \* useRef<number>(0), its current
  frames                 \* the animate closures passed to requestAnimationFrame
                         \* and not yet called, in the order of the calls

inputs == <<startingAmount, burn, inflation, growth, postTaxSalary,
            yearsUntilRetirement>>

outputs == <<result, yearlyData, hung, pageResult, pageYearlyData, pageHung,
             basicResult>>

direct == <<horizon, projection, pageProjection>>

animated == <<value, displayValue, isAnimating, prevValueRef, frames>>

vars == <<inputs, outputs, direct, animated>>

\* no AnimatedNumber takes part: its state is the one of construction
NoAnimatedNumber ==
  /\ value = Num(0)
  /\ displayValue = 0
  /\ isAnimating = FALSE
  /\ prevValueRef = 0
  /\ frames = <<>>

\* useEffect(() => calculateZCD()) of the revisions, on the given inputs:
\* a call that does not return leaves the stored result and data as they were
Effect(a, b, i, g, s, y, oldResult, oldData, oldPageResult, oldPageData) ==
  \E c \in {calculateZCD(a, b, i, g, s, y)},
     p \in {pageCalculateZCD(a, b, i, g)},
     r \in {basicCalculateZCD(a, b, i, g)} :
      /\ hung' = ~c.gen.returns
      /\ result' = IF c.gen.returns THEN c.result ELSE oldResult
      /\ yearlyData' = IF c.gen.returns THEN c.gen.data ELSE oldData
      /\ pageHung' = ~p.gen.returns
      /\ pageResult' = IF p.gen.returns THEN p.result ELSE oldPageResult
      /\ pageYearlyData' = IF p.gen.returns THEN p.gen.data ELSE oldPageData
      /\ basicResult' = r
      /\ UNCHANGED animated

\* the state after mounting: the inputs and the first run of the effect
Init ==
  /\ startingAmount \in Money
  /\ burn \in Money
  /\ inflation \in Rates
  /\ growth \in GrowthRates
  /\ postTaxSalary \in Salaries
  /\ yearsUntilRetirement \in RetirementYears
  /\ \E c \in {calculateZCD(startingAmount, burn, inflation, growth,
                              postTaxSalary, yearsUntilRetirement)},
        p \in {pageCalculateZCD(startingAmount, burn, inflation, growth)} :
       /\ hung = ~c.gen.returns
       /\ result = IF c.gen.returns THEN c.result ELSE Null
       /\ yearlyData = IF c.gen.returns THEN c.gen.data ELSE <<>>
       /\ pageHung = ~p.gen.returns
       /\ pageResult = IF p.gen.returns THEN p.result ELSE Null
       /\ pageYearlyData = IF p.gen.returns THEN p.gen.data ELSE <<>>
  /\ basicResult = basicCalculateZCD(startingAmount, burn, inflation, growth)
  /\ horizon = 0
  /\ projection = <<>>
  /\ pageProjection = <<>>
  /\ NoAnimatedNumber

\* no event is handled while a calculateZCD call is still running
Responsive == ~hung /\ ~pageHung

SetStartingAmount(v) ==
  /\ Responsive
  /\ v # startingAmount
  /\ startingAmount' = v
  /\ UNCHANGED <<burn, inflation, growth, postTaxSalary, yearsUntilRetirement>>
  /\ UNCHANGED direct
  /\ Effect(v, burn, inflation, growth, postTaxSalary, yearsUntilRetirement,
            result, yearlyData, pageResult, pageYearlyData)

SetBurn(v) ==
  /\ Responsive
  /\ v # burn
  /\ burn' = v
  /\ UNCHANGED <<startingAmount, inflation, growth, postTaxSalary,
                 yearsUntilRetirement>>
  /\ UNCHANGED direct
  /\ Effect(startingAmount, v, inflation, growth, postTaxSalary,
            yearsUntilRetirement,
            result, yearlyData, pageResult, pageYearlyData)

SetInflation(v) ==
  /\ Responsive
  /\ v # inflation
  /\ inflation' = v
  /\ UNCHANGED <<startingAmount, burn, growth, postTaxSalary,
                 yearsUntilRetirement>>
  /\ UNCHANGED direct
  /\ Effect(startingAmount, burn, v, growth, postTaxSalary,
            yearsUntilRetirement,
            result, yearlyData, pageResult, pageYearlyData)

SetGrowth(v) ==
  /\ Responsive
  /\ v # growth
  /\ growth' = v
  /\ UNCHANGED <<startingAmount, burn, inflation, postTaxSalary,
                 yearsUntilRetirement>>
  /\ UNCHANGED direct
  /\ Effect(startingAmount, burn, inflation, v, postTaxSalary,
            yearsUntilRetirement,
            result, yearlyData, pageResult, pageYearlyData)

SetPostTaxSalary(v) ==
  /\ Responsive
  /\ v # postTaxSalary
  /\ postTaxSalary' = v
  /\ UNCHANGED <<startingAmount, burn, inflation, growth,
                 yearsUntilRetirement>>
  /\ UNCHANGED direct
  /\ Effect(startingAmount, burn, inflation, growth, v, yearsUntilRetirement,
            result, yearlyData, pageResult, pageYearlyData)

SetYearsUntilRetirement(v) ==
  /\ Responsive
  /\ v # yearsUntilRetirement
  /\ yearsUntilRetirement' = v
  /\ UNCHANGED <<startingAmount, burn, inflation, growth, postTaxSalary>>
  /\ UNCHANGED direct
  /\ Effect(startingAmount, burn, inflation, growth, postTaxSalary, v,
            result, yearlyData, pageResult, pageYearlyData)

Next ==
  \/ \E v \in Money : SetStartingAmount(v)
  \/ \E v \in Money : SetBurn(v)
  \/ \E v \in Rates : SetInflation(v)
  \/ \E v \in GrowthRates : SetGrowth(v)
  \/ \E v \in Salaries : SetPostTaxSalary(v)
  \/ \E v \in RetirementYears : SetYearsUntilRetirement(v)

Spec == Init /\ [][Next]_vars

\* a direct call of both projectors on the current inputs with horizon h
Project(h) ==
  /\ projection = <<>>
  /\ horizon' = h
  /\ projection' =
       generateYearlyData(Num(startingAmount), Num(burn),
                          Div(Num(growth), Num(100)),
                          Div(Num(inflation), Num(100)),
                          Num(postTaxSalary), yearsUntilRetirement,
                          Num(h)).data
  /\ pageProjection' =
       pageGenerateYearlyData(Num(startingAmount), Num(burn),
                              Div(Num(growth), Num(100)),
                              Div(Num(inflation), Num(100)), Num(h)).data
  /\ UNCHANGED <<inputs, outputs, animated>>

NextProject == \E h \in 0..MaxHorizon : Project(h)

\* the solver on inputs drawn from the domain, then one direct projection
SpecProject == Init /\ [][NextProject]_vars

----------------------------------------------------------------------------
(* part_000 on its own, from the values it is constructed with             *)

\* useState<number>(1000000)
DefaultStartingAmount == 1000000

\* useState<number>(50000)
DefaultBurn == 50000

\* useState<number>(3)
DefaultInflation == 3

\* useState<number>(7)
DefaultGrowth == 7

\* values typed into the four inputs
TypedAmounts == {DefaultStartingAmount, 100000, 250000, 500000}

TypedBurns == {DefaultBurn, 60000, 80000, 100000}

TypedInflations == {DefaultInflation, 0, 7}

TypedGrowths == {DefaultGrowth, 3, 10}

\* the state after mounting part_000: the defaults and the first run of the
\* effect; the other two revisions are not mounted
InitBasic ==
  /\ startingAmount = DefaultStartingAmount
  /\ burn = DefaultBurn
  /\ inflation = DefaultInflation
  /\ growth = DefaultGrowth
  /\ postTaxSalary = 0
  /\ yearsUntilRetirement = 0
  /\ basicResult = basicCalculateZCD(startingAmount, burn, inflation, growth)
  /\ result = Null /\ yearlyData = <<>> /\ hung = FALSE
  /\ pageResult = Null /\ pageYearlyData = <<>> /\ pageHung = FALSE
  /\ horizon = 0
  /\ projection = <<>>
  /\ pageProjection = <<>>
  /\ NoAnimatedNumber

notMounted == <<postTaxSalary, yearsUntilRetirement, result, yearlyData, hung,
                pageResult, pageYearlyData, pageHung, direct, animated>>

BasicSetStartingAmount(v) ==
  /\ v # startingAmount
  /\ startingAmount' = v
  /\ basicResult' = basicCalculateZCD(v, burn, inflation, growth)
  /\ UNCHANGED <<burn, inflation, growth, notMounted>>

BasicSetBurn(v) ==
  /\ v # burn
  /\ burn' = v
  /\ basicResult' = basicCalculateZCD(startingAmount, v, inflation, growth)
  /\ UNCHANGED <<startingAmount, inflation, growth, notMounted>>

BasicSetInflation(v) ==
  /\ v # inflation
  /\ inflation' = v
  /\ basicResult' = basicCalculateZCD(startingAmount, burn, v, growth)
  /\ UNCHANGED <<startingAmount, burn, growth, notMounted>>

BasicSetGrowth(v) ==
  /\ v # growth
  /\ growth' = v
  /\ basicResult' = basicCalculateZCD(startingAmount, burn, inflation, v)
  /\ UNCHANGED <<startingAmount, burn, inflation, notMounted>>

NextBasic ==
  \/ \E v \in TypedAmounts : BasicSetStartingAmount(v)
  \/ \E v \in TypedBurns : BasicSetBurn(v)
  \/ \E v \in TypedInflations : BasicSetInflation(v)
  \/ \E v \in TypedGrowths : BasicSetGrowth(v)

SpecBasic == InitBasic /\ [][NextBasic]_vars

----------------------------------------------------------------------------
(* part_001: AnimatedNumber on its own, driven through its value prop      *)

\* the largest number passed as value
MaxShown == 2

\* the duration prop, in ticks of the clock read by Date.now()
Duration == 2

\* the largest number of animate closures waiting for a frame
MaxFrames == 2

\* the numbers passed as value
Shown == {Num(n) : n \in 0..MaxShown}

\* Math.round(prevValue + difference * easeOutQuart) at the given elapsed
\* time, with progress = Math.min(elapsed / duration, 1) and
\* easeOutQuart = 1 - (1 - progress)^4; Math.round rounds a half upwards
currentValue(prevValue, numericValue, elapsed) ==
  LET e == IF elapsed < Duration THEN elapsed ELSE Duration
      whole == Duration * Duration * Duration * Duration
      rest == (Duration - e) * (Duration - e) * (Duration - e) * (Duration - e)
      num == prevValue * whole + (numericValue - prevValue) * (whole - rest)
  IN  (2 * num + whole) \div (2 * whole)

\* one call of the closure animate on the component state st: it sets
\* displayValue, and either asks for another frame or settles
animate(f, st) ==
  IF f.elapsed < Duration
  THEN [st EXCEPT !.displayValue =
                    currentValue(f.prevValue, f.numericValue, f.elapsed),
                  !.frames = Append(@, f)]
  ELSE [st EXCEPT !.displayValue = f.numericValue,
                  !.isAnimating = FALSE,
                  !.prevValueRef = f.numericValue]

\* the closures waiting for a frame are called in the order in which they
\* were passed to requestAnimationFrame
RECURSIVE runFrame(_, _)
runFrame(waiting, st) ==
  IF waiting = <<>> THEN st
  ELSE runFrame(Tail(waiting), animate(Head(waiting), st))

\* the body of useEffect(..., [value, duration]) for the value v
useEffectValue(v) ==
  IF v = Infinite
  THEN /\ displayValue' = 0
       /\ UNCHANGED <<isAnimating, prevValueRef, frames>>
  ELSE IF Num(prevValueRef) = v
  THEN UNCHANGED <<displayValue, isAnimating, prevValueRef, frames>>
  ELSE /\ isAnimating' = TRUE
       /\ frames' = Append(frames, [prevValue |-> prevValueRef,
                                    numericValue |-> v.n, elapsed |-> 0])
       /\ UNCHANGED <<displayValue, prevValueRef>>

\* the state after mounting an AnimatedNumber with a number as value: the
\* hooks are constructed and the effect has run once; the calculator is not
\* mounted
InitAnimated ==
  /\ startingAmount = 0 /\ burn = 0 /\ inflation = 0 /\ growth = 0
  /\ postTaxSalary = 0 /\ yearsUntilRetirement = 0
  /\ result = Null /\ yearlyData = <<>> /\ hung = FALSE
  /\ pageResult = Null /\ pageYearlyData = <<>> /\ pageHung = FALSE
  /\ basicResult = Null
  /\ horizon = 0 /\ projection = <<>> /\ pageProjection = <<>>
  /\ value \in Shown
  /\ displayValue = 0
  /\ prevValueRef = 0
  /\ isAnimating = (value # Num(0))
  /\ frames = IF value = Num(0) THEN <<>>
              ELSE <<[prevValue |-> 0, numericValue |-> value.n,
                      elapsed |-> 0]>>

\* the parent renders the component with another value: the effect runs
SetValue(v) ==
  /\ v # value
  /\ Len(frames) < MaxFrames
  /\ value' = v
  /\ useEffectValue(v)
  /\ UNCHANGED <<inputs, outputs, direct>>

\* time passes: Date.now() grows by one tick for every waiting closure
Tick ==
  /\ \E i \in 1..Len(frames) : frames[i].elapsed < Duration
  /\ frames' = [i \in 1..Len(frames) |->
                  [frames[i] EXCEPT !.elapsed =
                     IF @ < Duration THEN @ + 1 ELSE @]]
  /\ UNCHANGED <<value, displayValue, isAnimating, prevValueRef>>
  /\ UNCHANGED <<inputs, outputs, direct>>

\* the browser runs an animation frame: every waiting closure is called
AnimationFrame ==
  /\ frames # <<>>
  /\ \E st \in {runFrame(frames, [displayValue |-> displayValue,
                                   isAnimating |-> isAnimating,
                                   prevValueRef |-> prevValueRef,
                                   frames |-> <<>>])} :
       /\ displayValue' = st.displayValue
       /\ isAnimating' = st.isAnimating
       /\ prevValueRef' = st.prevValueRef
       /\ frames' = st.frames
  /\ UNCHANGED value
  /\ UNCHANGED <<inputs, outputs, direct>>

NextAnimated ==
  \/ \E v \in Shown : SetValue(v)
  \/ Tick
  \/ AnimationFrame

SpecAnimated == InitAnimated /\ [][NextAnimated]_vars

----------------------------------------------------------------------------
(* Vocabulary of the properties                                            *)

Last(seq) == seq[Len(seq)]

\* capital is positive and neither rate is -100% or below
ValidInputs == startingAmount > 0 /\ inflation > -100 /\ growth > -100

\* a direct projection has been made
Projected == projection # <<>>

\* the page.tsx solver stored a finite result whose zcd is a number
PageFinite ==
  pageResult # Null /\ ~pageHung /\ ~pageResult.isInfinite
  /\ IsFin(pageResult.zcd)

\* the part_001 solver stored a finite result whose zcd is a number
Finite == result # Null /\ ~hung /\ ~result.isInfinite /\ IsFin(result.zcd)

\* the records of data, from year 1 on, whose portfolioValue is 0
ZeroYears(data) ==
  {data[i].year : i \in {j \in 1..Len(data) :
                           data[j].year >= 1 /\ data[j].portfolioValue = Num(0)}}

\* some record of data shows portfolioValue = 0 at a year in 1..n
DepletedBy(data, n) == \E y \in ZeroYears(data) : Le(Num(y), n)

----------------------------------------------------------------------------
(* C1 .. C10                                                               *)

\* C1: without a working phase, when startingAmount > 0, burn > 0 and the
\* solver returns a finite zcd = N, the projection with horizon N ends with
\* the record (year = N, portfolioValue = 0).
C1_RoundTrip ==
  (Projected /\ ValidInputs /\ burn > 0 /\ PageFinite
     /\ pageResult.zcd = Num(horizon))
  => /\ Last(pageProjection).year = horizon
     /\ Last(pageProjection).portfolioValue = Num(0)

\* C2: whenever a solver returns a finite zcd = N, N >= 0 and a projection
\* with a horizon of at least N shows portfolioValue = 0 at a year <= N;
\* for the solver of page.tsx and for the solver of part_001.
C2_DepletesByZcd ==
  /\ (Projected /\ ValidInputs /\ PageFinite
        /\ Le(pageResult.zcd, Num(horizon)))
     => /\ Le(Num(0), pageResult.zcd)
        /\ DepletedBy(pageProjection, pageResult.zcd)
  /\ (Projected /\ ValidInputs /\ Finite /\ Le(result.zcd, Num(horizon)))
     => /\ Le(Num(0), result.zcd)
        /\ DepletedBy(projection, result.zcd)

\* C3: in the solver with a working phase, isInfinite is true exactly when
\* the returned spendingRate is below the returned sustainableRate.
C3_InfiniteIffBelowSustainable ==
  (result # Null /\ ~hung /\ ValidInputs)
  => (result.isInfinite <=> Lt(result.spendingRate, result.sustainableRate))

\* C4: in the solver without a working phase, for startingAmount # 0,
\* isInfinite is true exactly when the returned spendingRate is below the
\* returned sustainableRate, which are (burn / startingAmount) * 100 and
\* ((R - 1) / R) * 100; an infinite result has zcd 'infinite' and no
\* criticalCapital.
C4_PageInfiniteIffBelowSustainable ==
  (pageResult # Null /\ ~pageHung /\ startingAmount # 0)
  => LET R == RealGrowth(Div(Num(growth), Num(100)),
                         Div(Num(inflation), Num(100)))
     IN  /\ pageResult.spendingRate = Fin(100 * burn, startingAmount)
         /\ pageResult.sustainableRate
              = Mul(Div(Sub(R, Num(1)), R), Num(100))
         /\ pageResult.isInfinite
              <=> Lt(pageResult.spendingRate, pageResult.sustainableRate)
         /\ pageResult.isInfinite
              => pageResult.zcd = Infinite /\ pageResult.criticalCapital = Absent

\* C4 witness: an infinite result and positive capital
C4_Witness ==
  /\ pageResult # Null /\ ~pageHung /\ startingAmount > 0 /\ burn > 0
  /\ pageResult.isInfinite
  /\ Lt(pageResult.spendingRate, pageResult.sustainableRate)

\* C5: with startingAmount > 0, burn >= 0, postTaxSalary >= 0 and both rates
\* above -100%, when the solver returns isInfinite = true the projection has,
\* for every horizon H, exactly H + 1 records, all with portfolioValue > 0.
C5_InfiniteNeverDepletes ==
  (Projected /\ ValidInputs /\ result # Null /\ ~hung /\ result.isInfinite)
  => /\ Len(projection) = horizon + 1
     /\ \A i \in 1..Len(projection) : Lt(Num(0), projection[i].portfolioValue)

\* C5 witness: an infinite result after a working phase with salary and
\* withdrawals, projected over the longest horizon
C5_Witness ==
  /\ Projected /\ ValidInputs /\ result # Null /\ ~hung /\ result.isInfinite
  /\ burn > 0 /\ postTaxSalary > 0 /\ yearsUntilRetirement > 0
  /\ horizon = MaxHorizon

\* C6: without a working phase, whenever the solver returns
\* isInfinite = false there is a horizon at which the projection ends with a
\* record with portfolioValue = 0 (stated for the longest horizon, which
\* contains the projection of every shorter one).
C6_FiniteDepletes ==
  (Projected /\ ValidInputs /\ pageResult # Null /\ ~pageHung
     /\ ~pageResult.isInfinite /\ horizon = MaxHorizon)
  => ZeroYears(pageProjection) # {}

\* b2 is never better than b1: b2 infinite implies b1 infinite, and when both
\* are finite zcd(b2) <= zcd(b1)
NeverBetter(r1, r2) ==
  /\ r2.isInfinite => r1.isInfinite
  /\ (~r1.isInfinite /\ ~r2.isInfinite) => Le(r2.zcd, r1.zcd)

\* C7: for two parameter sets that differ only in the withdrawal, b1 < b2,
\* the result for b2 is never better than the result for b1; for the solver
\* of page.tsx and for the solver of part_001.
C7_MonotoneInBurn ==
  (result # Null /\ ~hung /\ pageResult # Null /\ ~pageHung /\ ValidInputs)
  => \A b2 \in Money :
       burn < b2 =>
         /\ NeverBetter(result,
                        calculateZCD(startingAmount, b2, inflation, growth,
                                     postTaxSalary,
                                     yearsUntilRetirement).result)
         /\ NeverBetter(pageResult,
                        pageCalculateZCD(startingAmount, b2, inflation,
                                         growth).result)

\* the part_001 result is the one stored when the portfolio ran out during
\* the working years: finite, and no criticalCapital
EarlyDepletion ==
  result # Null /\ ~hung /\ ~result.isInfinite
  /\ result.criticalCapital = Absent

\* C8: when the portfolio survives the working years and the result is
\* finite, zcd = yearsUntilRetirement + N with N the retirement-phase count
\* for the portfolio and burn at retirement, and zcd is the year of the first
\* zero-capital record of the projection for the same parameters.
C8_TotalMatchesProjection ==
  (Finite /\ ValidInputs /\ burn > 0 /\ yearsUntilRetirement >= 1
     /\ ~EarlyDepletion)
  => LET G == Div(Num(growth), Num(100))
         Inf == Div(Num(inflation), Num(100))
         w == workingYears(G, Inf, Num(postTaxSalary), yearsUntilRetirement,
                           1, Num(startingAmount), Num(burn))
     IN  /\ result.zcd
              = Add(Num(yearsUntilRetirement),
                    finiteYears(w.portfolioAtRetirement, w.currentBurn,
                                RealGrowth(G, Inf)))
         /\ Last(yearlyData).portfolioValue = Num(0)
         /\ Num(Last(yearlyData).year) = result.zcd

\* the withdrawal of year n: burn * (1 + Inf)^(n - 1)
RECURSIVE WithdrawalOfYear(_)
WithdrawalOfYear(n) ==
  IF n = 1 THEN Num(burn)
  ELSE Mul(WithdrawalOfYear(n - 1),
           Add(Num(1), Div(Num(inflation), Num(100))))

\* capital after the contribution and the withdrawal of year n (n >= 1),
\* by the recurrence of the model, without the projector's early stop
RECURSIVE CapitalAfterWithdrawal(_, _)
CapitalAfterWithdrawal(n, withSalary) ==
  LET G == Div(Num(growth), Num(100))
      c == IF withSalary /\ n <= yearsUntilRetirement
           THEN Num(postTaxSalary) ELSE Num(0)
      start == IF n = 1 THEN Num(startingAmount)
               ELSE Mul(CapitalAfterWithdrawal(n - 1, withSalary),
                        Add(Num(1), G))
  IN  Sub(Add(start, c), WithdrawalOfYear(n))

\* the first year in 1..h in which capital after the withdrawal is <= 0:
\* a set with that year, or the empty set when there is none
RECURSIVE DepletionYearsFrom(_, _, _)
DepletionYearsFrom(n, h, withSalary) ==
  IF n > h THEN {}
  ELSE IF Le(CapitalAfterWithdrawal(n, withSalary), Num(0)) THEN {n}
  ELSE DepletionYearsFrom(n + 1, h, withSalary)

DepletionYears(h, withSalary) == DepletionYearsFrom(1, h, withSalary)

\* C9: if in some year y <= yearsUntilRetirement capital after the salary and
\* the withdrawal is <= 0, the solver returns isInfinite = false, zcd = y for
\* the first such y and no criticalCapital, and y is the year of the terminal
\* zero-capital record of the projection.
C9_EarlyDepletion ==
  \A y \in DepletionYears(yearsUntilRetirement, TRUE) :
    /\ (result # Null /\ ~hung)
       => (~result.isInfinite /\ result.zcd = Num(y)
           /\ result.criticalCapital = Absent
           /\ Last(yearlyData).year = y
           /\ Last(yearlyData).portfolioValue = Num(0))
    /\ (Projected /\ horizon >= y)
       => (Last(projection).year = y
           /\ Last(projection).portfolioValue = Num(0))

\* C9 witness: the portfolio runs out in the second working year although
\* salary is paid in, and the projection was run past that year
C9_Witness ==
  /\ 2 \in DepletionYears(yearsUntilRetirement, TRUE)
  /\ postTaxSalary > 0 /\ EarlyDepletion /\ result.zcd = Num(2)
  /\ Projected /\ horizon > 2 /\ Len(projection) = 3

Min(a, b) == IF a < b THEN a ELSE b

\* length min(H, D) + 1 for horizon H, where D ranges over depl (empty when
\* capital never runs out within H)
ExpectedLength(H, depl) ==
  IF depl = {} THEN H + 1 ELSE Min(H, CHOOSE n \in depl : TRUE) + 1

\* the records of data carry the years 0, 1, 2, ...; when capital runs out
\* within the horizon the depletion record is the last one
WellFormed(data, depl) ==
  /\ \A i \in 1..Len(data) : data[i].year = i - 1
  /\ \A n \in depl : Last(data).year = n /\ Last(data).portfolioValue = Num(0)

\* C10: for every horizon H >= 0 a projector returns min(H, D) + 1 records,
\* D the first year in which capital after the withdrawal is <= 0; years are
\* consecutive from 0, there are never more than H + 1 records and none
\* after the depletion record; for the projectors of part_001 and page.tsx.
C10_ProjectionLength ==
  Projected
  => \A depl \in {DepletionYears(horizon, TRUE)},
        pageDepl \in {DepletionYears(horizon, FALSE)} :
       /\ Len(projection) = ExpectedLength(horizon, depl)
       /\ Len(pageProjection) = ExpectedLength(horizon, pageDepl)
       /\ Len(projection) <= horizon + 1
       /\ Len(pageProjection) <= horizon + 1
       /\ WellFormed(projection, depl)
       /\ WellFormed(pageProjection, pageDepl)

\* C10 witness: capital runs out in year 3, before the horizon
C10_Witness ==
  /\ Projected /\ horizon > 3 /\ yearsUntilRetirement > 0 /\ postTaxSalary > 0
  /\ DepletionYears(horizon, TRUE) = {3} /\ Len(projection) = 4
  /\ DepletionYears(horizon, FALSE) # {} /\ Len(pageProjection) < 4

----------------------------------------------------------------------------
(* C11 .. C20                                                              *)

\* C11: for every input combination, burn = 0 and growth = inflation
\* included, a call of calculateZCD of page.tsx returns: the horizon handed
\* to generateYearlyData is finite and its loop ends.
C11_CalculateReturns == ~pageHung

\* C12: whenever the solver of page.tsx stores a result with
\* isInfinite = false, its zcd is a finite integer, never NaN or an infinity;
\* burn = 0, startingAmount = 0 and rates of -100% included.
C12_FiniteZcdIsInteger ==
  (pageResult # Null /\ ~pageHung /\ ~pageResult.isInfinite)
  => (IsFin(pageResult.zcd) /\ pageResult.zcd.d = 1)

\* C13: in the solver of page.tsx, when growth = inflation so that R is
\* exactly 1, with burn > 0 and startingAmount > 0, the result is finite and
\* zcd = floor(startingAmount / burn).
C13_EqualRatesLinear ==
  (growth = inflation /\ growth > -100 /\ burn > 0 /\ startingAmount > 0)
  => /\ ~pageHung /\ pageResult # Null
     /\ ~pageResult.isInfinite
     /\ pageResult.zcd = Num(startingAmount \div burn)

\* C13 witness: equal rates and a capital that is not a multiple of burn
C13_Witness ==
  /\ growth = inflation /\ growth = 50 /\ burn = 2 /\ startingAmount = 3
  /\ pageResult # Null /\ pageResult.zcd = Num(1)

\* burn / startingAmount < (R - 1) / R = (growth - inflation) / (100 + growth),
\* in whole numbers
BelowSustainable ==
  burn * (100 + growth) < startingAmount * (growth - inflation)

\* C14: when startingAmount > 0, growth > inflation and burn / startingAmount
\* is below (R - 1) / R, the solver of page.tsx returns isInfinite = true,
\* and so does the solver of part_001 for every postTaxSalary >= 0 and every
\* yearsUntilRetirement >= 0.
C14_BelowSustainableIsInfinite ==
  (startingAmount > 0 /\ growth > inflation /\ inflation > -100
     /\ BelowSustainable)
  => /\ ~pageHung /\ pageResult # Null /\ pageResult.isInfinite
     /\ pageResult.zcd = Infinite
     /\ ~hung /\ result # Null /\ result.isInfinite
     /\ result.zcd = Infinite

\* C14 witness: an infinite result after a working phase with salary
C14_Witness ==
  /\ startingAmount = 3 /\ burn = 1 /\ inflation = 0 /\ growth = 100
  /\ postTaxSalary > 0 /\ yearsUntilRetirement = 2
  /\ BelowSustainable
  /\ pageResult # Null /\ pageResult.isInfinite
  /\ result # Null /\ result.isInfinite

\* the inputs of scenario 1: 1,000,000 / 50,000 / 3% / 7%
ScenarioOne ==
  /\ startingAmount = DefaultStartingAmount /\ burn = DefaultBurn
  /\ inflation = DefaultInflation /\ growth = DefaultGrowth

\* C15 as stated: on scenario 1 the result is finite and the closed form
\* yields a zcd of about 25 (within two years of 25).
C15_ScenarioOneAbout25 ==
  ScenarioOne
  => /\ ~basicResult.isInfinite
     /\ Le(Num(23), basicResult.zcd) /\ Le(basicResult.zcd, Num(27))

\* C15 amended: on scenario 1 the result is finite, because the spending
\* rate of 5% is not below the sustainable rate of 400/107 % (about 3.738%),
\* and the closed form yields zcd = 36.
C15_ScenarioOne ==
  ScenarioOne
  => /\ ~basicResult.isInfinite
     /\ basicResult.spendingRate = Num(5)
     /\ basicResult.sustainableRate = Fin(400, 107)
     /\ ~Lt(basicResult.spendingRate, basicResult.sustainableRate)
     /\ basicResult.zcd = Num(36)

\* C15 witness: scenario 1 solved with K = 1,337,500
C15_Witness ==
  /\ ScenarioOne /\ ~basicResult.isInfinite
  /\ basicResult.criticalCapital = Num(1337500)
  /\ IsFin(basicResult.zcd)

\* R of the current inputs
CurrentR ==
  RealGrowth(Div(Num(growth), Num(100)), Div(Num(inflation), Num(100)))

\* portfolio and burn after the working years of the current inputs
AtRetirement ==
  workingYears(Div(Num(growth), Num(100)), Div(Num(inflation), Num(100)),
               Num(postTaxSalary), yearsUntilRetirement, 1,
               Num(startingAmount), Num(burn))

\* C16: for startingAmount > 0 and burn > 0, whenever the infinite test has
\* failed and |R - 1| >= 0.0001, the critical capital K exceeds the capital
\* at the start of the retirement phase, so that the branch K - A <= 0 with
\* N = 0 is never taken; for page.tsx and for part_001.
C16_FallbackUnreachable ==
  /\ (ValidInputs /\ burn > 0 /\ ~pageHung /\ pageResult # Null
        /\ ~pageResult.isInfinite /\ ~NearOne(CurrentR))
     => Lt(Num(startingAmount), pageResult.criticalCapital)
  /\ (ValidInputs /\ burn > 0 /\ ~hung /\ result # Null
        /\ ~result.isInfinite /\ result.criticalCapital # Absent
        /\ ~NearOne(CurrentR))
     => Lt(AtRetirement.portfolioAtRetirement, result.criticalCapital)

\* C17: whenever R <= 0, i.e. growth <= -100%, the solver of page.tsx does
\* not take the branch that evaluates Math.log(R): a finite result comes
\* from the linear case or from the branch K - A <= 0, so its zcd is
\* Math.floor(startingAmount / burn) or 0, and no logarithm of a
\* non-positive number is computed.
C17_NoLogOfNonPositiveR ==
  (Le(CurrentR, Num(0)) /\ ~pageHung /\ pageResult # Null
     /\ ~pageResult.isInfinite)
  => \/ pageResult.zcd = Num(0)
     \/ pageResult.zcd = Floor(Div(Num(startingAmount), Num(burn)))

\* C18: when the capital does not run out during the working years, the
\* portfolio and the burn with which the solver of part_001 enters the
\* retirement phase are the portfolioValue and the burnRate of the
\* projector's record of year yearsUntilRetirement, for every
\* yearsUntilRetirement >= 0.
C18_PhaseMatchesProjection ==
  (Projected /\ horizon >= yearsUntilRetirement /\ ~AtRetirement.depleted)
  => /\ Len(projection) > yearsUntilRetirement
     /\ \A rec \in {projection[yearsUntilRetirement + 1]} :
          /\ rec.year = yearsUntilRetirement
          /\ rec.portfolioValue = AtRetirement.portfolioAtRetirement
          /\ rec.burnRate = AtRetirement.currentBurn

\* C18 witness: two working years with salary and inflation, no depletion
C18_Witness ==
  /\ Projected /\ horizon >= yearsUntilRetirement
  /\ yearsUntilRetirement = 2 /\ postTaxSalary > 0 /\ burn > 0
  /\ inflation = 50 /\ growth = 100
  /\ ~AtRetirement.depleted
  /\ projection[3].portfolioValue = AtRetirement.portfolioAtRetirement
  /\ projection[3].portfolioValue # Num(startingAmount)

\* C19: the projector of part_001 emits the year-0 record (startingAmount,
\* burn); in every later year n it adds the salary c_n (postTaxSalary when
\* n <= yearsUntilRetirement, else 0) to the capital of the record before,
\* subtracts the withdrawal w_n = burn (1 + Inf)^(n - 1) and tests the
\* outcome for depletion before any growth: an outcome <= 0 ends the
\* sequence, otherwise the record of year n holds that outcome times 1 + G.
C19_StepSemantics ==
  Projected
  => /\ projection[1].year = 0
     /\ projection[1].portfolioValue = Num(startingAmount)
     /\ projection[1].burnRate = Num(burn)
     /\ \A i \in 2..Len(projection) :
          \A pre \in {Sub(Add(projection[i - 1].portfolioValue,
                              IF i - 1 <= yearsUntilRetirement
                              THEN Num(postTaxSalary) ELSE Num(0)),
                          WithdrawalOfYear(i - 1))} :
            /\ projection[i].year = i - 1
            /\ IF Le(pre, Num(0)) THEN i = Len(projection)
               ELSE projection[i].portfolioValue =
                      Mul(pre, Add(Num(1), Div(Num(growth), Num(100))))

\* C19 witness: a projection through a working year and a retirement year
\* with salary, inflation and growth, and no depletion before year 3
C19_Witness ==
  /\ Projected /\ Len(projection) >= 4
  /\ yearsUntilRetirement = 1 /\ postTaxSalary > 0 /\ burn > 0
  /\ inflation = 50 /\ growth = 100
  /\ projection[3].portfolioValue # Num(0)
  /\ projection[3].portfolioValue # projection[2].portfolioValue

\* the records of data that end a sequence by depletion: record i (year
\* i - 1) is one when the capital of the record before, plus the salary of
\* that year when withSalary, minus the withdrawal of that year, is <= 0
DepletionRecords(data, withSalary) ==
  {i \in 2..Len(data) :
     Le(Sub(Add(data[i - 1].portfolioValue,
                IF withSalary /\ i - 1 <= yearsUntilRetirement
                THEN Num(postTaxSalary) ELSE Num(0)),
            WithdrawalOfYear(i - 1)),
        Num(0))}

\* C20 as stated: when capital after contribution and withdrawal is <= 0 in
\* year n, the record of year n has its capital value and its withdrawal
\* value clamped to 0 and is the last one; for part_001 and page.tsx.
C20_DepletionRecordAllZero ==
  Projected
  => /\ \A i \in DepletionRecords(projection, TRUE) :
          /\ projection[i].portfolioValue = Num(0)
          /\ projection[i].burnRate = Num(0)
          /\ i = Len(projection)
     /\ \A i \in DepletionRecords(pageProjection, FALSE) :
          /\ pageProjection[i].portfolioValue = Num(0)
          /\ pageProjection[i].burnRate = Num(0)
          /\ i = Len(pageProjection)

\* C20 amended: when capital after contribution and withdrawal is <= 0 in
\* year n, the record of year n has portfolioValue = netWorth = 0, keeps
\* the withdrawal of year n as its burnRate, and is the last one; for
\* part_001 and page.tsx.
C20_DepletionRecord ==
  Projected
  => /\ \A i \in DepletionRecords(projection, TRUE) :
          /\ projection[i].year = i - 1
          /\ projection[i].portfolioValue = Num(0)
          /\ projection[i].netWorth = Num(0)
          /\ projection[i].burnRate = WithdrawalOfYear(i - 1)
          /\ i = Len(projection)
     /\ \A i \in DepletionRecords(pageProjection, FALSE) :
          /\ pageProjection[i].year = i - 1
          /\ pageProjection[i].portfolioValue = Num(0)
          /\ pageProjection[i].netWorth = Num(0)
          /\ pageProjection[i].burnRate = WithdrawalOfYear(i - 1)
          /\ i = Len(pageProjection)

\* C20 witness: both projections end by depletion, after the first year,
\* with a positive withdrawal in the last record
C20_Witness ==
  /\ Projected /\ burn > 0 /\ inflation = 50
  /\ Len(projection) >= 3 /\ Len(pageProjection) >= 3
  /\ Len(projection) \in DepletionRecords(projection, TRUE)
  /\ Len(pageProjection) \in DepletionRecords(pageProjection, FALSE)
  /\ Lt(Num(burn), Last(projection).burnRate)
  /\ Last(projection).portfolioValue = Num(0)

----------------------------------------------------------------------------
(* C21 .. C30                                                              *)

\* the records of data, from year 1 on, that do not end it by depletion
OrdinaryRecords(data, withSalary) ==
  (2..Len(data)) \ DepletionRecords(data, withSalary)

\* C21 as stated: the record of every non-terminal year N >= 1 stores the
\* withdrawal that was subtracted in year N, burn (1 + Inf)^(N - 1); for
\* part_001 and page.tsx.
C21_RecordHoldsBurnOfYear ==
  Projected
  => /\ \A i \in OrdinaryRecords(projection, TRUE) :
          projection[i].burnRate = WithdrawalOfYear(i - 1)
     /\ \A i \in OrdinaryRecords(pageProjection, FALSE) :
          pageProjection[i].burnRate = WithdrawalOfYear(i - 1)

\* C21 amended: the record of every non-terminal year N >= 1 stores the
\* withdrawal already raised by inflation, burn (1 + Inf)^N, which is the
\* amount that will be subtracted in year N + 1; for part_001 and page.tsx.
C21_RecordHoldsNextBurn ==
  Projected
  => /\ \A i \in OrdinaryRecords(projection, TRUE) :
          projection[i].burnRate = WithdrawalOfYear(i)
     /\ \A i \in OrdinaryRecords(pageProjection, FALSE) :
          pageProjection[i].burnRate = WithdrawalOfYear(i)

\* C21 witness: a non-terminal record of year 2 under inflation, in both
\* projections
C21_Witness ==
  /\ Projected /\ burn > 0 /\ inflation = 50
  /\ 3 \in OrdinaryRecords(projection, TRUE)
  /\ 3 \in OrdinaryRecords(pageProjection, FALSE)
  /\ projection[3].burnRate = Fin(9 * burn, 4)

\* C22: the solver of part_001 stores no criticalCapital when isInfinite is
\* true and when capital runs out in the working years, and stores one in
\* every other result; when R is a number other than 1 the stored value is
\* K = B' R / (R - 1) for the burn B' at retirement, and it is the fixed
\* point of the recurrence: K = R (K - B').
C22_CriticalCapitalIsFixedPoint ==
  (result # Null /\ ~hung)
  => /\ result.isInfinite => result.criticalCapital = Absent
     /\ AtRetirement.depleted => result.criticalCapital = Absent
     /\ (~result.isInfinite /\ ~AtRetirement.depleted)
        => result.criticalCapital # Absent
     /\ (result.criticalCapital # Absent /\ IsFin(CurrentR)
           /\ CurrentR # Num(1))
        => \A B1 \in {AtRetirement.currentBurn} :
             /\ IsFin(result.criticalCapital)
             /\ result.criticalCapital =
                  Div(Mul(B1, CurrentR), Sub(CurrentR, Num(1)))
             /\ result.criticalCapital =
                  Mul(CurrentR, Sub(result.criticalCapital, B1))

\* C22 witness: a finite result after two working years with inflation,
\* whose critical capital is built from the burn at retirement
C22_Witness ==
  /\ result # Null /\ ~hung /\ ~result.isInfinite /\ ~AtRetirement.depleted
  /\ yearsUntilRetirement = 2 /\ inflation = 50 /\ growth = 100 /\ burn > 0
  /\ IsFin(result.criticalCapital)
  /\ result.criticalCapital = Mul(Num(4), AtRetirement.currentBurn)
  /\ AtRetirement.currentBurn # Num(burn)

\* the three reported rates of a result
Metrics(r) == <<r.spendingRate, r.sustainableRate, r.realGrowthRate>>

\* C23: every result of the solver of part_001, from the early-depletion, the
\* infinite and the finite branch alike, has spendingRate = (burn /
\* startingAmount) * 100, sustainableRate = ((R - 1) / R) * 100 and
\* realGrowthRate = (R - 1) * 100 of the original inputs, and a change of
\* postTaxSalary or yearsUntilRetirement alone leaves the three unchanged.
C23_MetricsIgnorePhase ==
  /\ [](result # Null /\ ~hung
        => Metrics(result) =
             <<Mul(Div(Num(burn), Num(startingAmount)), Num(100)),
               Mul(Div(Sub(CurrentR, Num(1)), CurrentR), Num(100)),
               Mul(Sub(CurrentR, Num(1)), Num(100))>>)
  /\ [][(result # Null /\ ~hung'
           /\ UNCHANGED <<startingAmount, burn, inflation, growth>>)
        => Metrics(result') = Metrics(result)]_vars

\* C23 witness: a finite result after two working years in which salary,
\* growth and inflation have changed both the portfolio and the burn
C23_Witness ==
  /\ result # Null /\ ~hung /\ ~result.isInfinite /\ ~AtRetirement.depleted
  /\ yearsUntilRetirement = 2 /\ postTaxSalary > 0
  /\ startingAmount > 0 /\ burn > 0
  /\ Div(AtRetirement.currentBurn, AtRetirement.portfolioAtRetirement)
       # Div(Num(burn), Num(startingAmount))
  /\ result.spendingRate = Fin(100 * burn, startingAmount)

\* the fields of a result that the revisions have in common
Common(r) ==
  <<r.isInfinite, r.zcd, r.criticalCapital, r.spendingRate,
    r.sustainableRate>>

\* C24: with yearsUntilRetirement = 0 and any postTaxSalary, the solver of
\* part_001 returns the same isInfinite, zcd, criticalCapital, spendingRate
\* and sustainableRate as the solvers of page.tsx and part_000, the calls of
\* part_001 and page.tsx return or fail to return together and store the
\* same yearly data, and the two projectors return the same records for
\* every horizon.
C24_CopiesAgree ==
  yearsUntilRetirement = 0
  => /\ hung = pageHung
     /\ ~hung => /\ Common(result) = Common(pageResult)
                 /\ Common(result) = Common(basicResult)
                 /\ yearlyData = pageYearlyData
     /\ Projected => projection = pageProjection

\* C24 witness: no working years but a salary, a finite result from the
\* logarithm, and a projection that ends by depletion
C24_Witness ==
  /\ yearsUntilRetirement = 0 /\ postTaxSalary > 0
  /\ startingAmount = 3 /\ burn = 2 /\ inflation = 0 /\ growth = 50
  /\ ~hung /\ result.zcd = Num(1) /\ basicResult.zcd = Num(1)
  /\ pageResult.criticalCapital = Num(6)
  /\ Projected /\ horizon > 2 /\ Len(projection) = 3
  /\ Last(pageProjection).portfolioValue = Num(0)

\* the solver of page.tsx took the branch with the logarithm: R is above
\* 1.0001 and the stored K is a number above startingAmount
PageGeneralBranch ==
  /\ PageFinite
  /\ Lt(Fin(10001, 10000), CurrentR)
  /\ IsFin(pageResult.criticalCapital)
  /\ Lt(Num(startingAmount), pageResult.criticalCapital)

\* C25: for startingAmount > 0, burn > 0, R > 1.0001 and a finite zcd = N
\* from the branch with the logarithm, the year D of the first zero-capital
\* record of the projection of page.tsx satisfies N <= D <= N + 1.
C25_OffByAtMostOne ==
  (Projected /\ ValidInputs /\ burn > 0 /\ PageGeneralBranch
     /\ Le(Add(pageResult.zcd, Num(1)), Num(horizon)))
  => \A Z \in {ZeroYears(pageProjection)} :
       /\ Z # {}
       /\ \A D \in {y \in Z : \A z \in Z : y <= z} :
            /\ Le(pageResult.zcd, Num(D))
            /\ Le(Num(D), Add(pageResult.zcd, Num(1)))

\* C25 witness: zcd = 1 from the logarithm, depletion in year 2
C25_Witness ==
  /\ Projected /\ ValidInputs /\ burn > 0 /\ PageGeneralBranch
  /\ pageResult.zcd = Num(1) /\ horizon >= 2
  /\ ZeroYears(pageProjection) = {2}

\* C26: whenever calculateZCD stores a finite result with zcd = N, the
\* yearlyData stored by the same call ends with a record whose portfolioValue
\* is 0; for page.tsx and for part_001.
C26_StoredDataEndsAtZero ==
  /\ PageFinite => Last(pageYearlyData).portfolioValue = Num(0)
  /\ Finite => Last(yearlyData).portfolioValue = Num(0)

\* C27: with postTaxSalary = 0, startingAmount > 0 and burn > 0, the
\* isInfinite and the zcd stored by the solver of part_001 are those it
\* returns for yearsUntilRetirement = 0, whatever yearsUntilRetirement is.
C27_NoSalaryPhaseChangesNothing ==
  (result # Null /\ ~hung /\ postTaxSalary = 0 /\ startingAmount > 0
     /\ burn > 0)
  => \A r0 \in {calculateZCD(startingAmount, burn, inflation, growth,
                             0, 0).result} :
       /\ result.isInfinite = r0.isInfinite
       /\ result.zcd = r0.zcd

\* C28: whenever the solver of page.tsx stores a finite result with
\* criticalCapital = K, the solver run with the same burn and rates returns
\* isInfinite = true for every startingAmount above K and isInfinite = false
\* for every startingAmount in (0, K].
C28_CriticalCapitalIsThreshold ==
  (pageResult # Null /\ ~pageHung /\ ~pageResult.isInfinite
     /\ pageResult.criticalCapital # Absent)
  => \A a \in Money \ {0} :
       pageCalculateZCD(a, burn, inflation, growth).result.isInfinite
         <=> Lt(pageResult.criticalCapital, Num(a))

\* every record of data has portfolioValue >= 0, and a record with
\* portfolioValue = 0 at a year >= 1 is the last one
NonNegativeZeroLast(data) ==
  \A i \in 1..Len(data) :
    /\ Le(Num(0), data[i].portfolioValue)
    /\ (data[i].year >= 1 /\ data[i].portfolioValue = Num(0))
         => i = Len(data)

\* C29: for startingAmount >= 0, burn >= 0 and any rates, every record of a
\* projection has portfolioValue >= 0 and a record with portfolioValue = 0 at
\* a year >= 1 is the last record; for page.tsx and for part_001.
C29_NonNegativeZeroLast ==
  Projected => /\ NonNegativeZeroLast(projection)
               /\ NonNegativeZeroLast(pageProjection)

\* C30: for every sequence of changes of a numeric value prop, in every
\* state in which no frame is requested any more the displayed number is the
\* current value prop.
C30_SettlesOnValue == frames = <<>> => Num(displayValue) = value
====
